---- MODULE Spec2Model ----
(***************************************************************************)
(* Contribution accrual and ledger reconciliation of the tontine           *)
(* application (src/tontine_app.py).                                       *)
(*                                                                         *)
(* Text values held by the store (ISO dates, decimal amounts of the        *)
(* settings table) are sequences of character codes, compared as SQLite    *)
(* and Python compare strings. Calendar dates are records                  *)
(* [year, month, day], ordered as datetime.date orders them.               *)
(***************************************************************************)
EXTENDS Integers, Sequences, FiniteSets

VARIABLES
    settings,       \* table settings: key -> text value
    members,        \* table members: id -> [phone, start_date (text), is_active (0/1)]
    payments,       \* table payments: set of rows [id, member_id, pay_date, amount, mode]
    bank_deposits,  \* table bank_deposits: set of rows [id, dep_date, amount]
    seq,            \* AUTOINCREMENT counters: table name -> last id handed out
    today,          \* the system clock read by date.today()
    q_start,        \* calculator call: argument member_start
    q_asof,         \* calculator call: argument asof
    ret,            \* calculator call: the function applied and the value returned
    req             \* requests being served: worker thread -> position and local variables

vars == <<settings, members, payments, bank_deposits, seq, today, q_start, q_asof, ret, req>>

-----------------------------------------------------------------------------
(* Bounds of the model *)

\* member_start ranges over CalcFirstDate + 0..MaxStartOffset (plus ExtraStarts)
MaxStartOffset == 35
\* asof ranges over CalcFirstDate + 0..MaxAsofOffset
MaxAsofOffset == 97
\* rows the tables members, payments and bank_deposits ever receive
MaxMembers == 2
MaxPayments == 2
MaxDeposits == 2

-----------------------------------------------------------------------------
(* Text: character codes, decimal numerals, lexicographic order *)

Ch0 == 48
ChDash == 45

RECURSIVE StrLT(_, _)
\* s < t as SQLite (BINARY collation) and Python order two strings
StrLT(s, t) ==
    IF t = <<>> THEN FALSE
    ELSE IF s = <<>> THEN TRUE
    ELSE IF Head(s) # Head(t) THEN Head(s) < Head(t)
    ELSE StrLT(Tail(s), Tail(t))

StrLE(s, t) == s = t \/ StrLT(s, t)

RECURSIVE Digits(_)
Digits(n) == IF n < 10 THEN <<Ch0 + n>> ELSE Digits(n \div 10) \o <<Ch0 + (n % 10)>>

\* str(int(n)) for n >= 0
IntToStr(n) == Digits(n)

RECURSIVE StrToInt(_)
\* int(s) for a string of decimal digits
StrToInt(s) ==
    IF s = <<>> THEN 0
    ELSE 10 * StrToInt(SubSeq(s, 1, Len(s) - 1)) + (s[Len(s)] - Ch0)

RECURSIVE ZFill(_, _)
ZFill(s, w) == IF Len(s) >= w THEN s ELSE ZFill(<<Ch0>> \o s, w)

\* n written with at least w digits, zero padded (format specs 04d, 02d)
Pad(n, w) == ZFill(Digits(n), w)

-----------------------------------------------------------------------------
(* datetime.date *)

Date(y, m, d) == [year |-> y, month |-> m, day |-> d]

IsLeap(y) == y % 4 = 0 /\ (y % 100 # 0 \/ y % 400 = 0)

DaysInMonth(y, m) ==
    IF m = 2 THEN (IF IsLeap(y) THEN 29 ELSE 28)
    ELSE IF m \in {4, 6, 9, 11} THEN 30 ELSE 31

RECURSIVE DaysBeforeMonth(_, _)
DaysBeforeMonth(y, m) ==
    IF m = 1 THEN 0 ELSE DaysBeforeMonth(y, m - 1) + DaysInMonth(y, m - 1)

DaysBeforeYear(y) ==
    (y - 1) * 365 + ((y - 1) \div 4) - ((y - 1) \div 100) + ((y - 1) \div 400)

\* date.toordinal(): 0001-01-01 is day 1
ToOrdinal(d) == DaysBeforeYear(d.year) + DaysBeforeMonth(d.year, d.month) + d.day

\* date.fromordinal(n)
FromOrdinal(n) ==
    LET n0   == n - 1
        n400 == n0 \div 146097
        r400 == n0 % 146097
        n100 == r400 \div 36524
        r100 == r400 % 36524
        n4   == r100 \div 1461
        r4   == r100 % 1461
        n1   == r4 \div 365
        r1   == r4 % 365
        y    == n400 * 400 + 1 + n100 * 100 + n4 * 4 + n1
    IN  IF n1 = 4 \/ n100 = 4 THEN Date(y - 1, 12, 31)
        ELSE LET m0   == (r1 + 50) \div 32
                 pre0 == DaysBeforeMonth(y, m0)
                 m    == IF pre0 > r1 THEN m0 - 1 ELSE m0
                 pre  == IF pre0 > r1 THEN DaysBeforeMonth(y, m0 - 1) ELSE pre0
             IN  Date(y, m, r1 - pre + 1)

\* a < b on dates
DateLT(a, b) ==
    \/ a.year < b.year
    \/ a.year = b.year /\ a.month < b.month
    \/ a.year = b.year /\ a.month = b.month /\ a.day < b.day

DateLE(a, b) == a = b \/ DateLT(a, b)

DateMax(a, b) == IF DateLT(a, b) THEN b ELSE a
DateMin(a, b) == IF DateLT(b, a) THEN b ELSE a

\* (y1, m1) < (y2, m2) on tuples
YmLT(y1, m1, y2, m2) == y1 < y2 \/ (y1 = y2 /\ m1 < m2)
YmLE(y1, m1, y2, m2) == y1 < y2 \/ (y1 = y2 /\ m1 <= m2)

\* date.isoformat(): "YYYY-MM-DD"
IsoFormat(d) == Pad(d.year, 4) \o <<ChDash>> \o Pad(d.month, 2) \o <<ChDash>> \o Pad(d.day, 2)

\* date.fromisoformat(s) for s in the form isoformat() writes
FromIsoFormat(s) ==
    Date(StrToInt(SubSeq(s, 1, 4)), StrToInt(SubSeq(s, 6, 7)), StrToInt(SubSeq(s, 9, 10)))

-----------------------------------------------------------------------------
(* Settings *)

DEFAULT_START_DATE == IsoFormat(Date(2025, 10, 15))
DEFAULT_DAILY_AMOUNT == IntToStr(2000)
DEFAULT_MONTHLY_CAP == IntToStr(60000)
DEFAULT_OCT_2025_FIXED == IntToStr(30000)
DEFAULT_END_DATE == <<>>

SettingKeys == {"project_start_date", "daily_amount", "monthly_cap",
                "oct_2025_fixed", "project_end_date"}

\* the settings rows init_db inserts
init_db_settings ==
    [k \in SettingKeys |->
        CASE k = "project_start_date" -> DEFAULT_START_DATE
          [] k = "daily_amount"       -> DEFAULT_DAILY_AMOUNT
          [] k = "monthly_cap"        -> DEFAULT_MONTHLY_CAP
          [] k = "oct_2025_fixed"     -> DEFAULT_OCT_2025_FIXED
          [] k = "project_end_date"   -> DEFAULT_END_DATE]

get_setting(key) == settings[key]

project_start_date == FromIsoFormat(get_setting("project_start_date"))

daily_amount == StrToInt(get_setting("daily_amount"))

monthly_cap == StrToInt(get_setting("monthly_cap"))

oct_2025_fixed == StrToInt(get_setting("oct_2025_fixed"))

NoDate == [year |-> 0, month |-> 0, day |-> 0]

\* None (NoDate) when the stored text is empty
project_end_date ==
    IF get_setting("project_end_date") = <<>> THEN NoDate
    ELSE FromIsoFormat(get_setting("project_end_date"))

\* mutant: the stop date is ignored
as_of_date_unclamped(t) == t

\* as_of_date() when date.today() returns t: min(t, stop date) when the project
\* is stopped, t otherwise
as_of_date_at(t) ==
    IF project_end_date # NoDate THEN DateMin(t, project_end_date) ELSE t

as_of_date == as_of_date_at(today)

-----------------------------------------------------------------------------
(* Accrual calculator *)

month_end(d) ==
    IF d.month = 12 THEN Date(d.year, 12, 31)
    ELSE FromOrdinal(ToOrdinal(Date(d.year, d.month + 1, 1)) - 1)

RECURSIVE months_loop_short(_, _, _, _)
\* mutant: the loop stops before the month of the end date
months_loop_short(y, m, ey, em) ==
    IF YmLT(y, m, ey, em)
    THEN <<  <<y, m>>  >> \o (IF m = 12 THEN months_loop_short(y + 1, 1, ey, em)
                                        ELSE months_loop_short(y, m + 1, ey, em))
    ELSE <<>>

RECURSIVE months_loop(_, _, _, _)
months_loop(y, m, ey, em) ==
    IF YmLE(y, m, ey, em)
    THEN <<  <<y, m>>  >> \o (IF m = 12 THEN months_loop(y + 1, 1, ey, em)
                                        ELSE months_loop(y, m + 1, ey, em))
    ELSE <<>>

months_between(start, end) == months_loop(start.year, start.month, end.year, end.month)

Min(a, b) == IF a < b THEN a ELSE b
Max(a, b) == IF a > b THEN a ELSE b

\* the fee for October 2025, sought by a mutant: recognised only after the month's last day
special_month_late(asof, member_start) ==
    IF <<member_start.year, member_start.month>> # <<2025, 10>> THEN 0
    ELSE IF DateLE(asof, Date(2025, 10, 31)) THEN 0
    ELSE oct_2025_fixed

\* due_for_month, the branch for October 2025
special_month(asof, member_start) ==
    IF <<member_start.year, member_start.month>> # <<2025, 10>> THEN 0
    ELSE IF DateLT(asof, Date(2025, 10, 31)) THEN 0
    ELSE oct_2025_fixed

\* mutant: the day count leaves out the window's last day
general_month_exclusive(year, month, asof, member_start) ==
    LET m_start   == Date(year, month, 1)
        m_end     == month_end(m_start)
        eff_start == DateMax(m_start, member_start)
        eff_end   == DateMin(m_end, asof)
    IN  IF DateLT(eff_end, eff_start) THEN 0
        ELSE LET days == ToOrdinal(eff_end) - ToOrdinal(eff_start)
             IN  Min(monthly_cap, daily_amount * days)

\* mutant: the cap is not applied
general_month_uncapped(year, month, asof, member_start) ==
    LET m_start   == Date(year, month, 1)
        m_end     == month_end(m_start)
        eff_start == DateMax(m_start, member_start)
        eff_end   == DateMin(m_end, asof)
    IN  IF DateLT(eff_end, eff_start) THEN 0
        ELSE LET days == (ToOrdinal(eff_end) - ToOrdinal(eff_start)) + 1
             IN  daily_amount * days

\* mutant: a month that has ended before asof counts for nothing
general_month_current_only(year, month, asof, member_start) ==
    LET m_start   == Date(year, month, 1)
        m_end     == month_end(m_start)
        eff_start == DateMax(m_start, member_start)
        eff_end   == asof
    IN  IF DateLT(eff_end, eff_start) \/ DateLT(m_end, asof) THEN 0
        ELSE LET days == (ToOrdinal(eff_end) - ToOrdinal(eff_start)) + 1
             IN  Min(monthly_cap, daily_amount * days)

\* due_for_month, the branch for every other month
general_month(year, month, asof, member_start) ==
    LET m_start   == Date(year, month, 1)
        m_end     == month_end(m_start)
        eff_start == DateMax(m_start, member_start)
        eff_end   == DateMin(m_end, asof)
    IN  IF DateLT(eff_end, eff_start) THEN 0
        ELSE LET days == (ToOrdinal(eff_end) - ToOrdinal(eff_start)) + 1
             IN  Min(monthly_cap, daily_amount * days)

due_for_month(year, month, asof, member_start) ==
    IF YmLT(year, month, member_start.year, member_start.month) THEN 0
    ELSE IF year = 2025 /\ month = 10 THEN special_month(asof, member_start)
    ELSE general_month(year, month, asof, member_start)

RECURSIVE due_total_loop(_, _, _)
due_total_loop(ms, asof, member_start) ==
    IF ms = <<>> THEN 0
    ELSE due_for_month(Head(ms)[1], Head(ms)[2], asof, member_start)
         + due_total_loop(Tail(ms), asof, member_start)

due_total_as_of(asof, member_start) ==
    IF DateLT(asof, member_start) THEN 0
    ELSE due_total_loop(months_between(member_start, asof), asof, member_start)

-----------------------------------------------------------------------------
(* Administrative configuration *)

IsDigit(c) == c >= Ch0 /\ c <= Ch0 + 9

\* date.fromisoformat(s) succeeds (the YYYY-MM-DD form)
IsIsoDate(s) ==
    /\ Len(s) = 10
    /\ s[5] = ChDash /\ s[8] = ChDash
    /\ \A i \in {1, 2, 3, 4, 6, 7, 9, 10} : IsDigit(s[i])
    /\ LET d == FromIsoFormat(s)
       IN  /\ d.year >= 1
           /\ d.month >= 1 /\ d.month <= 12
           /\ d.day >= 1 /\ d.day <= DaysInMonth(d.year, d.month)

set_setting(tbl, key, value) == [tbl EXCEPT ![key] = value]

NoRet == [fn |-> "none", year |-> 0, month |-> 0, val |-> 0]

\* the worker threads of the server's thread pool that serve requests
Threads == {1, 2}

\* a worker thread serving no request
Idle == [pc |-> "idle", dep_date |-> <<>>, amount |-> 0, asof |-> NoDate,
         collected |-> 0, deposited |-> 0]

NoRequests == [t \in Threads |-> Idle]

\* POST /admin/config/save. A saved configuration ends the calculator call in
\* progress: a returned value is a value under the configuration it was
\* computed with.
admin_config_save(start_in, daily_amount_in, monthly_cap_in, oct_2025_fixed_in) ==
    /\ IF ~IsIsoDate(start_in)
       THEN UNCHANGED settings
       ELSE IF daily_amount_in < 0 \/ monthly_cap_in < 0 \/ oct_2025_fixed_in < 0
       THEN UNCHANGED settings
       ELSE settings' =
              set_setting(
                set_setting(
                  set_setting(
                    set_setting(settings, "project_start_date", start_in),
                    "daily_amount", IntToStr(daily_amount_in)),
                  "monthly_cap", IntToStr(monthly_cap_in)),
                "oct_2025_fixed", IntToStr(oct_2025_fixed_in))
    /\ ret' = NoRet
    /\ UNCHANGED <<members, payments, bank_deposits, seq, today, req, q_start, q_asof>>

-----------------------------------------------------------------------------
(* The calculator applied to bounded inputs *)

CalcFirstDate == Date(2025, 9, 28)

CalcDate(i) == FromOrdinal(ToOrdinal(CalcFirstDate) + i)

StartDates == {CalcDate(i) : i \in 0..MaxStartOffset} \cup {Date(2025, 12, 1)}

AsofDates == {CalcDate(i) : i \in 0..MaxAsofOffset}

CalcLastDate == CalcDate(MaxAsofOffset)

\* the (year, month) pairs the calculator is asked about
CalcMonths ==
    LET ms == months_between(CalcFirstDate, CalcLastDate)
    IN  {ms[i] : i \in 1..Len(ms)}

BadDateText == <<50, 48, 50, 53, 45, 49, 51, 45, 48, 49>>   \* "2025-13-01"

\* forms the administrator submits: <<start date, daily, cap, fixed fee>>
CalcConfigInputs ==
    { <<DEFAULT_START_DATE, 2000, 60000, 30000>>,
      <<DEFAULT_START_DATE, 2000, 20000, 30000>>,
      <<DEFAULT_START_DATE, 2000, 0 - 1, 30000>>,
      <<BadDateText, 2000, 20000, 30000>> }

InitCalc ==
    /\ settings = init_db_settings
    /\ members = <<>>
    /\ payments = {}
    /\ bank_deposits = {}
    /\ seq = [t \in {"members", "payments", "bank_deposits"} |-> 0]
    /\ today = CalcFirstDate
    /\ q_start \in StartDates
    /\ q_asof \in AsofDates
    /\ ret = NoRet
    /\ req = NoRequests

call_due_for_month ==
    \E ym \in CalcMonths :
        /\ ret' = [fn |-> "due_for_month", year |-> ym[1], month |-> ym[2],
                   val |-> due_for_month(ym[1], ym[2], q_asof, q_start)]
        /\ UNCHANGED <<settings, members, payments, bank_deposits, seq, today, req, q_start, q_asof>>

call_due_total_as_of ==
    /\ ret' = [fn |-> "due_total_as_of", year |-> 0, month |-> 0,
               val |-> due_total_as_of(q_asof, q_start)]
    /\ UNCHANGED <<settings, members, payments, bank_deposits, seq, today, req, q_start, q_asof>>

\* the same member's total asked again one day later
call_due_total_next_day ==
    /\ ret.fn = "due_total_as_of"
    /\ DateLT(q_asof, CalcLastDate)
    /\ q_asof' = FromOrdinal(ToOrdinal(q_asof) + 1)
    /\ ret' = [fn |-> "due_total_as_of", year |-> 0, month |-> 0,
               val |-> due_total_as_of(q_asof', q_start)]
    /\ UNCHANGED <<settings, members, payments, bank_deposits, seq, today, req, q_start>>

calc_config_save ==
    \E c \in CalcConfigInputs : admin_config_save(c[1], c[2], c[3], c[4])

NextCalc ==
    \/ call_due_for_month
    \/ call_due_total_as_of
    \/ call_due_total_next_day
    \/ calc_config_save

SpecCalc == InitCalc /\ [][NextCalc]_vars

-----------------------------------------------------------------------------
(* Ledger queries *)

RECURSIVE SumAmount(_)
\* COALESCE(SUM(amount), 0) over a set of rows
SumAmount(rows) ==
    IF rows = {} THEN 0
    ELSE LET r == CHOOSE x \in rows : TRUE
         IN  r.amount + SumAmount(rows \ {r})

\* mutant: payments dated asof itself are left out
paid_total_before(member_id, asof) ==
    SumAmount({p \in payments : /\ p.member_id = member_id
                                /\ StrLT(p.pay_date, IsoFormat(asof))})

paid_total_as_of(member_id, asof) ==
    SumAmount({p \in payments : /\ p.member_id = member_id
                                /\ StrLE(p.pay_date, IsoFormat(asof))})

\* member_status with the arrears and the advance exchanged
member_status_swapped(member_id, member_start, asof) ==
    LET due      == due_total_as_of(asof, member_start)
        paid     == paid_total_as_of(member_id, asof)
        balance  == paid - due
        avance   == Max(0, 0 - balance)
        rest_pos == Max(0, balance)
    IN  [due |-> due, paid |-> paid, rest |-> rest_pos, avance |-> avance,
         balance |-> balance,
         status |-> IF rest_pos = 0 THEN "A jour" ELSE "En retard"]

\* member_status reporting the unclamped difference due - paid as the arrears
member_status_unclamped(member_id, member_start, asof) ==
    LET due      == due_total_as_of(asof, member_start)
        paid     == paid_total_as_of(member_id, asof)
        rest     == due - paid
        balance  == paid - due
        avance   == Max(0, balance)
    IN  [due |-> due, paid |-> paid, rest |-> rest, avance |-> avance,
         balance |-> balance,
         status |-> IF rest = 0 THEN "A jour" ELSE "En retard"]

member_status(member_id, member_start, asof) ==
    LET due      == due_total_as_of(asof, member_start)
        paid     == paid_total_as_of(member_id, asof)
        balance  == paid - due
        avance   == Max(0, balance)
        rest_pos == Max(0, 0 - balance)
    IN  [due |-> due, paid |-> paid, rest |-> rest_pos, avance |-> avance,
         balance |-> balance,
         status |-> IF rest_pos = 0 THEN "A jour" ELSE "En retard"]

\* total_collected_as_of counting only the payments of active members
total_collected_active_only(asof) ==
    SumAmount({p \in payments :
                  /\ StrLE(p.pay_date, IsoFormat(asof))
                  /\ p.member_id \in DOMAIN members
                  /\ members[p.member_id].is_active = 1})

total_collected_as_of(asof) ==
    SumAmount({p \in payments : StrLE(p.pay_date, IsoFormat(asof))})

total_deposited_as_of(asof) ==
    SumAmount({b \in bank_deposits : StrLE(b.dep_date, IsoFormat(asof))})

\* shown_status computing the status without looking at the active flag
shown_status_any(member_id, asof) ==
    LET m == members[member_id]
    IN  member_status(member_id, FromIsoFormat(m.start_date), asof)

\* the status admin_dashboard and admin_member show for a member, asof being
\* the as-of date the handler read
shown_status(member_id, asof) ==
    LET m == members[member_id]
    IN  IF m.is_active = 1
        THEN member_status(member_id, FromIsoFormat(m.start_date), asof)
        ELSE [due |-> 0, paid |-> 0, rest |-> 0, avance |-> 0, balance |-> 0,
              status |-> "Desactive"]

RECURSIVE SumField(_, _, _)
SumField(ids, f, asof) ==
    IF ids = {} THEN 0
    ELSE LET i == CHOOSE x \in ids : TRUE
         IN  shown_status(i, asof)[f] + SumField(ids \ {i}, f, asof)

\* GET /admin when date.today() returns t: what the dashboard computes
admin_dashboard_at(t) ==
    LET asof    == as_of_date_at(t)
        active  == {i \in DOMAIN members : members[i].is_active = 1}
        collected == total_collected_as_of(asof)
        deposited == total_deposited_as_of(asof)
    IN  [rows         |-> [i \in DOMAIN members |-> shown_status(i, asof)],
         total_due    |-> SumField(active, "due", asof),
         total_paid   |-> SumField(active, "paid", asof),
         total_rest   |-> SumField(active, "rest", asof),
         total_avance |-> SumField(active, "avance", asof),
         ok_count     |-> Cardinality({i \in active : shown_status(i, asof).status = "A jour"}),
         late_count   |-> Cardinality({i \in active : shown_status(i, asof).status # "A jour"}),
         active_count |-> Cardinality(active),
         collected    |-> collected,
         deposited    |-> deposited,
         available_bank |-> Max(0, collected - deposited)]

admin_dashboard == admin_dashboard_at(today)

\* GET /me for the member logged in as member_id, when date.today() returns t
me_at(member_id, t) ==
    IF member_id \notin DOMAIN members \/ members[member_id].is_active # 1
    THEN [redirect |-> "/"]
    ELSE [st |-> member_status(member_id,
                               FromIsoFormat(members[member_id].start_date),
                               as_of_date_at(t)),
          asof |-> IsoFormat(as_of_date_at(t))]

me(member_id) == me_at(member_id, today)

-----------------------------------------------------------------------------
(* Monthly collection statistics *)

\* the keys "YYYY-MM" of the months from start to end
ym_list(start, end) ==
    LET ms == months_between(start, end)
    IN  [i \in 1..Len(ms) |-> Pad(ms[i][1], 4) \o <<ChDash>> \o Pad(ms[i][2], 2)]

RECURSIVE OrderBy(_)
\* ORDER BY over a set of texts: ascending, compared as text
OrderBy(S) ==
    IF S = {} THEN <<>>
    ELSE LET lo == CHOOSE x \in S : \A y \in S : StrLE(x, y)
         IN  <<lo>> \o OrderBy(S \ {lo})

\* SUM(CASE WHEN mode = m THEN amount ELSE 0 END)
SumMode(rows, m) == SumAmount({r \in rows : r.mode = m})

\* the rows of the query of monthly_collection_stats: one for each month that
\* has a payment dated asof or earlier, ordered by month key
stats_rows(asof) ==
    LET hit   == {p \in payments : StrLE(p.pay_date, IsoFormat(asof))}
        order == OrderBy({SubSeq(p.pay_date, 1, 7) : p \in hit})
    IN  [i \in 1..Len(order) |->
            LET g == {p \in hit : SubSeq(p.pay_date, 1, 7) = order[i]}
            IN  [ym |-> order[i], total |-> SumAmount(g), wave |-> SumMode(g, "wave"),
                 om |-> SumMode(g, "om"), cash |-> SumMode(g, "cash")]]

ZeroStats(ym) == [ym |-> ym, total |-> 0, wave |-> 0, om |-> 0, cash |-> 0]

RECURSIVE stats_fill_known_only(_, _, _)
\* stats_fill leaving out the rows of months that have no entry yet
stats_fill_known_only(stats, rows, k) ==
    IF k > Len(rows) THEN stats
    ELSE stats_fill_known_only(
             [i \in DOMAIN stats |-> IF stats[i].ym = rows[k].ym THEN rows[k] ELSE stats[i]],
             rows, k + 1)

RECURSIVE stats_fill(_, _, _)
\* the loop `for r in rows` of monthly_collection_stats from row k on; stats is
\* the dict, as the sequence of its entries in insertion order
stats_fill(stats, rows, k) ==
    IF k > Len(rows) THEN stats
    ELSE LET r  == rows[k]
             st == IF \E i \in DOMAIN stats : stats[i].ym = r.ym
                   THEN stats
                   ELSE Append(stats, ZeroStats(r.ym))
         IN  stats_fill([i \in DOMAIN st |-> IF st[i].ym = r.ym THEN r ELSE st[i]],
                        rows, k + 1)

monthly_collection_stats(asof) ==
    LET months == ym_list(project_start_date, asof)
    IN  stats_fill([i \in 1..Len(months) |-> ZeroStats(months[i])], stats_rows(asof), 1)

\* GET /admin/resume: the chart's labels and series, and the as-of date shown
admin_resume ==
    LET stats == monthly_collection_stats(as_of_date)
    IN  [asof   |-> IsoFormat(as_of_date),
         labels |-> [i \in DOMAIN stats |-> stats[i].ym],
         totals |-> [i \in DOMAIN stats |-> stats[i].total],
         wave   |-> [i \in DOMAIN stats |-> stats[i].wave],
         om     |-> [i \in DOMAIN stats |-> stats[i].om],
         cash   |-> [i \in DOMAIN stats |-> stats[i].cash]]

-----------------------------------------------------------------------------
(* Handlers that change the store, and the clock *)

MODES == {"wave", "om", "cash"}

calc_idle == UNCHANGED <<q_start, q_asof, ret, req>>

\* str.isdigit() on ASCII text
IsDigits(s) == s # <<>> /\ \A i \in 1..Len(s) : IsDigit(s[i])

is_valid_sn_phone(phone) == IsDigits(phone) /\ Len(phone) = 9

\* POST /admin/add-member. The name and the PIN hash of the inserted row are
\* read by no computation of the ledger and are left out of the row.
admin_add_member(phone, pin, start_date) ==
    /\ seq["members"] < MaxMembers
    /\ IF ~is_valid_sn_phone(phone)
       THEN UNCHANGED <<members, seq>>
       ELSE IF ~(IsDigits(pin) /\ Len(pin) = 4)
       THEN UNCHANGED <<members, seq>>
       ELSE IF ~IsIsoDate(start_date)
       THEN UNCHANGED <<members, seq>>
       ELSE IF \E i \in DOMAIN members : members[i].phone = phone
       THEN UNCHANGED <<members, seq>>      \* sqlite3.IntegrityError: phone is UNIQUE
       ELSE /\ members' = Append(members,
                                 [phone |-> phone,
                                  start_date |-> IsoFormat(FromIsoFormat(start_date)),
                                  is_active |-> 1])
            /\ seq' = [seq EXCEPT !["members"] = @ + 1]
    /\ UNCHANGED <<settings, payments, bank_deposits, today>>
    /\ calc_idle

\* admin_update_member without the look-up of another member with the phone
admin_update_member_unchecked(member_id, full_name, phone) ==
    /\ IF full_name = <<>>
       THEN UNCHANGED members
       ELSE IF ~is_valid_sn_phone(phone)
       THEN UNCHANGED members
       ELSE IF member_id \notin DOMAIN members
       THEN UNCHANGED members
       ELSE members' = [members EXCEPT ![member_id].phone = phone]
    /\ UNCHANGED <<settings, payments, bank_deposits, seq, today>>
    /\ calc_idle

\* POST /admin/member/update. The name is checked and, like the other columns
\* no computation reads, not kept in the row.
admin_update_member(member_id, full_name, phone) ==
    /\ IF full_name = <<>>
       THEN UNCHANGED members
       ELSE IF ~is_valid_sn_phone(phone)
       THEN UNCHANGED members
       ELSE IF member_id \notin DOMAIN members
       THEN UNCHANGED members
       ELSE IF \E j \in DOMAIN members : members[j].phone = phone /\ j # member_id
       THEN UNCHANGED members
       ELSE members' = [members EXCEPT ![member_id].phone = phone]
    /\ UNCHANGED <<settings, payments, bank_deposits, seq, today>>
    /\ calc_idle

set_active(member_id, flag) ==
    [i \in DOMAIN members |->
        IF i = member_id THEN [members[i] EXCEPT !.is_active = flag] ELSE members[i]]

\* POST /admin/member/deactivate
admin_deactivate_member(member_id) ==
    /\ members' = set_active(member_id, 0)
    /\ UNCHANGED <<settings, payments, bank_deposits, seq, today>>
    /\ calc_idle

\* admin_activate_member starting the member's accrual anew at today's date
admin_activate_member_restart(member_id) ==
    /\ members' = [i \in DOMAIN members |->
                     IF i = member_id
                     THEN [members[i] EXCEPT !.is_active = 1, !.start_date = IsoFormat(today)]
                     ELSE members[i]]
    /\ UNCHANGED <<settings, payments, bank_deposits, seq, today>>
    /\ calc_idle

\* POST /admin/member/activate
admin_activate_member(member_id) ==
    /\ members' = set_active(member_id, 1)
    /\ UNCHANGED <<settings, payments, bank_deposits, seq, today>>
    /\ calc_idle

\* admin_add_payment refusing only negative amounts
admin_add_payment_zero_allowed(member_id, pay_date, amount, mode) ==
    /\ seq["payments"] < MaxPayments
    /\ IF mode \notin MODES \/ ~IsIsoDate(pay_date) \/ amount < 0
       THEN UNCHANGED <<payments, seq>>
       ELSE /\ payments' = payments \cup
                  {[id |-> seq["payments"] + 1, member_id |-> member_id,
                    pay_date |-> IsoFormat(FromIsoFormat(pay_date)),
                    amount |-> amount, mode |-> mode]}
            /\ seq' = [seq EXCEPT !["payments"] = @ + 1]
    /\ UNCHANGED <<settings, members, bank_deposits, today>>
    /\ calc_idle

\* POST /admin/add-payment
admin_add_payment(member_id, pay_date, amount, mode) ==
    /\ seq["payments"] < MaxPayments
    /\ IF mode \notin MODES \/ ~IsIsoDate(pay_date) \/ amount <= 0
       THEN UNCHANGED <<payments, seq>>
       ELSE /\ payments' = payments \cup
                  {[id |-> seq["payments"] + 1, member_id |-> member_id,
                    pay_date |-> IsoFormat(FromIsoFormat(pay_date)),
                    amount |-> amount, mode |-> mode]}
            /\ seq' = [seq EXCEPT !["payments"] = @ + 1]
    /\ UNCHANGED <<settings, members, bank_deposits, today>>
    /\ calc_idle

\* admin_compta_add recording the payment whatever the channel given
admin_compta_add_any_mode(member_id, pay_date, amount, mode) ==
    /\ seq["payments"] < MaxPayments
    /\ IF ~IsIsoDate(pay_date) \/ amount <= 0
       THEN UNCHANGED <<payments, seq>>
       ELSE /\ payments' = payments \cup
                  {[id |-> seq["payments"] + 1, member_id |-> member_id,
                    pay_date |-> IsoFormat(FromIsoFormat(pay_date)),
                    amount |-> amount, mode |-> mode]}
            /\ seq' = [seq EXCEPT !["payments"] = @ + 1]
    /\ UNCHANGED <<settings, members, bank_deposits, today>>
    /\ calc_idle

\* POST /admin/comptabilite/add
admin_compta_add(member_id, pay_date, amount, mode) ==
    /\ seq["payments"] < MaxPayments
    /\ IF mode \notin MODES \/ ~IsIsoDate(pay_date) \/ amount <= 0
       THEN UNCHANGED <<payments, seq>>
       ELSE /\ payments' = payments \cup
                  {[id |-> seq["payments"] + 1, member_id |-> member_id,
                    pay_date |-> IsoFormat(FromIsoFormat(pay_date)),
                    amount |-> amount, mode |-> mode]}
            /\ seq' = [seq EXCEPT !["payments"] = @ + 1]
    /\ UNCHANGED <<settings, members, bank_deposits, today>>
    /\ calc_idle

\* admin_delete_payment matching the id given against the member column
admin_delete_payment_by_member(payment_id) ==
    /\ payments' = {p \in payments : p.member_id # payment_id}
    /\ UNCHANGED <<settings, members, bank_deposits, seq, today>>
    /\ calc_idle

\* POST /admin/payment/delete
admin_delete_payment(payment_id) ==
    /\ payments' = {p \in payments : p.id # payment_id}
    /\ UNCHANGED <<settings, members, bank_deposits, seq, today>>
    /\ calc_idle

\* admin_add_bank_deposit_response rejecting a deposit equal to the available balance
admin_add_bank_deposit_response_strict(dep_date, amount) ==
    IF ~IsIsoDate(dep_date)
    THEN [page |-> "Erreur", text |-> "Date banque invalide (AAAA-MM-JJ)."]
    ELSE IF amount <= 0
    THEN [page |-> "Erreur", text |-> "Montant banque invalide."]
    ELSE LET asof      == as_of_date
             collected == total_collected_as_of(asof)
             deposited == total_deposited_as_of(asof)
             available == Max(0, collected - deposited)
         IN  IF amount >= available
             THEN [page |-> "Erreur", text |-> "Montant > solde disponible.",
                   available |-> available]
             ELSE [page |-> "redirect", text |-> "/admin/comptabilite"]

\* POST /admin/bank/add: what the handler answers in the current state
admin_add_bank_deposit_response(dep_date, amount) ==
    IF ~IsIsoDate(dep_date)
    THEN [page |-> "Erreur", text |-> "Date banque invalide (AAAA-MM-JJ)."]
    ELSE IF amount <= 0
    THEN [page |-> "Erreur", text |-> "Montant banque invalide."]
    ELSE LET asof      == as_of_date
             collected == total_collected_as_of(asof)
             deposited == total_deposited_as_of(asof)
             available == Max(0, collected - deposited)
         IN  IF amount > available
             THEN [page |-> "Erreur", text |-> "Montant > solde disponible.",
                   available |-> available]
             ELSE [page |-> "redirect", text |-> "/admin/comptabilite"]

\* POST /admin/bank/add: the row is inserted unless the handler returned an
\* error page
admin_add_bank_deposit(dep_date, amount) ==
    /\ seq["bank_deposits"] < MaxDeposits
    /\ IF admin_add_bank_deposit_response(dep_date, amount).page = "Erreur"
       THEN UNCHANGED <<bank_deposits, seq>>
       ELSE /\ bank_deposits' = bank_deposits \cup
                  {[id |-> seq["bank_deposits"] + 1,
                    dep_date |-> IsoFormat(FromIsoFormat(dep_date)),
                    amount |-> amount]}
            /\ seq' = [seq EXCEPT !["bank_deposits"] = @ + 1]
    /\ UNCHANGED <<settings, members, payments, today>>
    /\ calc_idle

\* POST /admin/bank/delete
admin_delete_bank_deposit(deposit_id) ==
    /\ bank_deposits' = {b \in bank_deposits : b.id # deposit_id}
    /\ UNCHANGED <<settings, members, payments, seq, today>>
    /\ calc_idle

\* admin_project_stop storing the text of the form as it came
admin_project_stop_unvalidated(end_date) ==
    /\ settings' = set_setting(settings, "project_end_date", end_date)
    /\ UNCHANGED <<members, payments, bank_deposits, seq, today>>
    /\ calc_idle

\* POST /admin/project/stop
admin_project_stop(end_date) ==
    /\ IF ~IsIsoDate(end_date)
       THEN UNCHANGED settings
       ELSE settings' = set_setting(settings, "project_end_date",
                                    IsoFormat(FromIsoFormat(end_date)))
    /\ UNCHANGED <<members, payments, bank_deposits, seq, today>>
    /\ calc_idle

\* POST /admin/project/resume
admin_project_resume ==
    /\ settings' = set_setting(settings, "project_end_date", <<>>)
    /\ UNCHANGED <<members, payments, bank_deposits, seq, today>>
    /\ calc_idle

-----------------------------------------------------------------------------
(* The application: requests in any sequential order, under a clock that advances *)

ClockDates == {Date(2025, 11, 10), Date(2025, 11, 20), Date(2025, 12, 31)}

Phone1 == <<55, 55, 48, 48, 48, 48, 48, 48, 49>>   \* "770000001"
Phone2 == <<55, 55, 48, 48, 48, 48, 48, 48, 50>>   \* "770000002"
BadPhone == <<55, 55>>                             \* "77"
Pin1 == <<49, 50, 51, 52>>                         \* "1234"
BadPin == <<49, 50>>                               \* "12"

\* forms submitted to /admin/add-member: <<phone, pin, start date>>
MemberForms ==
    { <<Phone1, Pin1, IsoFormat(Date(2025, 10, 15))>>,
      <<Phone2, Pin1, IsoFormat(Date(2025, 10, 15))>>,
      <<Phone2, Pin1, IsoFormat(Date(2025, 12, 1))>>,
      <<BadPhone, Pin1, IsoFormat(Date(2025, 10, 15))>>,
      <<Phone1, BadPin, IsoFormat(Date(2025, 10, 15))>>,
      <<Phone1, Pin1, BadDateText>> }

\* forms submitted to /admin/add-payment and /admin/compta/add:
\* <<pay_date, amount, mode>>; the last three each fail one validation
PayForms ==
    { <<IsoFormat(Date(2025, 11, 10)), 40000, "wave">>,
      <<IsoFormat(Date(2025, 12, 15)), 40000, "wave">>,
      <<BadDateText, 40000, "wave">>,
      <<IsoFormat(Date(2025, 11, 10)), 0, "wave">>,
      <<IsoFormat(Date(2025, 11, 10)), 0 - 5000, "wave">>,
      <<IsoFormat(Date(2025, 11, 10)), 40000, "virement">> }

\* forms submitted to /admin/add-bank-deposit: <<dep_date, amount>>
DepositForms ==
    { <<IsoFormat(Date(2025, 11, 10)), 40000>>,
      <<IsoFormat(Date(2025, 12, 15)), 40000>>,
      <<BadDateText, 40000>>,
      <<IsoFormat(Date(2025, 11, 10)), 0>>,
      <<IsoFormat(Date(2025, 11, 10)), 0 - 5000>> }

StopDateInputs == {IsoFormat(Date(2025, 11, 20)), BadDateText}

MemberIds == 1..MaxMembers
PaymentIds == 1..MaxPayments
DepositIds == 1..MaxDeposits

Init ==
    /\ settings = init_db_settings
    /\ members = <<>>
    /\ payments = {}
    /\ bank_deposits = {}
    /\ seq = [t \in {"members", "payments", "bank_deposits"} |-> 0]
    /\ today \in ClockDates
    /\ q_start = CalcFirstDate
    /\ q_asof = CalcFirstDate
    /\ ret = NoRet
    /\ req = NoRequests

\* date.today() returns a later date
clock_advance ==
    /\ \E d \in ClockDates : DateLT(today, d) /\ today' = d
    /\ UNCHANGED <<settings, members, payments, bank_deposits, seq>>
    /\ calc_idle

Next ==
    \/ clock_advance
    \/ \E f \in MemberForms : admin_add_member(f[1], f[2], f[3])
    \/ \E i \in MemberIds : admin_deactivate_member(i)
    \/ \E i \in MemberIds : admin_activate_member(i)
    \/ \E i \in MemberIds, f \in PayForms : admin_add_payment(i, f[1], f[2], f[3])
    \/ \E i \in MemberIds, f \in PayForms : admin_compta_add(i, f[1], f[2], f[3])
    \/ \E i \in PaymentIds : admin_delete_payment(i)
    \/ \E f \in DepositForms : admin_add_bank_deposit(f[1], f[2])
    \/ \E i \in DepositIds : admin_delete_bank_deposit(i)
    \/ \E d \in StopDateInputs : admin_project_stop(d)
    \/ admin_project_resume

Spec == Init /\ [][Next]_vars

-----------------------------------------------------------------------------
(* Requests served at the same time: the handlers are plain functions, which
   the server runs on worker threads, and every db() call opens a connection
   of its own, so a request's statements interleave with those of the others *)

store_idle == UNCHANGED <<settings, members, today, q_start, q_asof, ret>>

\* POST /admin/bank/add on thread t, up to the read of the as-of date: the
\* form is validated and as_of_date() is read
admin_add_bank_deposit_begin(t, dep_date, amount) ==
    /\ req[t].pc = "idle"
    /\ seq["bank_deposits"] + Cardinality({u \in Threads : req[u].pc # "idle"}) < MaxDeposits
    /\ IF ~IsIsoDate(dep_date) \/ amount <= 0
       THEN UNCHANGED req
       ELSE req' = [req EXCEPT ![t] = [pc |-> "read_collected",
                                       dep_date |-> IsoFormat(FromIsoFormat(dep_date)),
                                       amount |-> amount, asof |-> as_of_date,
                                       collected |-> 0, deposited |-> 0]]
    /\ UNCHANGED <<payments, bank_deposits, seq>>
    /\ store_idle

\* collected = total_collected_as_of(asof)
admin_add_bank_deposit_read_collected(t) ==
    /\ req[t].pc = "read_collected"
    /\ req' = [req EXCEPT ![t].collected = total_collected_as_of(req[t].asof),
                          ![t].pc = "read_deposited"]
    /\ UNCHANGED <<payments, bank_deposits, seq>>
    /\ store_idle

\* deposited = total_deposited_as_of(asof)
admin_add_bank_deposit_read_deposited(t) ==
    /\ req[t].pc = "read_deposited"
    /\ req' = [req EXCEPT ![t].deposited = total_deposited_as_of(req[t].asof),
                          ![t].pc = "insert"]
    /\ UNCHANGED <<payments, bank_deposits, seq>>
    /\ store_idle

\* available is worked out from the values read; the row is inserted unless
\* amount > available
admin_add_bank_deposit_insert(t) ==
    /\ req[t].pc = "insert"
    /\ LET available == Max(0, req[t].collected - req[t].deposited)
       IN  IF req[t].amount > available
           THEN UNCHANGED <<bank_deposits, seq>>
           ELSE /\ bank_deposits' = bank_deposits \cup
                      {[id |-> seq["bank_deposits"] + 1,
                        dep_date |-> req[t].dep_date,
                        amount |-> req[t].amount]}
                /\ seq' = [seq EXCEPT !["bank_deposits"] = @ + 1]
    /\ req' = [req EXCEPT ![t] = Idle]
    /\ UNCHANGED payments
    /\ store_idle

RaceToday == Date(2025, 11, 10)

InitRace ==
    /\ settings = init_db_settings
    /\ members = <<>>
    /\ payments = {}
    /\ bank_deposits = {}
    /\ seq = [t \in {"members", "payments", "bank_deposits"} |-> 0]
    /\ today = RaceToday
    /\ q_start = CalcFirstDate
    /\ q_asof = CalcFirstDate
    /\ ret = NoRet
    /\ req = NoRequests

NextRace ==
    \/ \E i \in MemberIds, f \in PayForms : admin_add_payment(i, f[1], f[2], f[3])
    \/ \E i \in PaymentIds : admin_delete_payment(i)
    \/ \E t \in Threads, f \in DepositForms : admin_add_bank_deposit_begin(t, f[1], f[2])
    \/ \E t \in Threads : admin_add_bank_deposit_read_collected(t)
    \/ \E t \in Threads : admin_add_bank_deposit_read_deposited(t)
    \/ \E t \in Threads : admin_add_bank_deposit_insert(t)
    \/ \E i \in DepositIds : admin_delete_bank_deposit(i)

SpecRace == InitRace /\ [][NextRace]_vars

-----------------------------------------------------------------------------
(* A due computation overlapping a configuration save. Every get_setting and *)
(* every set_setting opens its own connection and is one step; a request is  *)
(* served on a worker thread and the steps of two requests interleave.       *)

ledger_idle == UNCHANGED <<members, payments, bank_deposits, seq, today>>

\* due_total_as_of(asof, member_start) on thread t, up to the loop over the months
due_total_as_of_begin(t, asof, member_start) ==
    /\ req[t].pc = "idle"
    /\ IF DateLT(asof, member_start)
       THEN /\ ret' = [fn |-> "due_total_as_of", year |-> 0, month |-> 0, val |-> 0]
            /\ q_asof' = asof
            /\ q_start' = member_start
            /\ UNCHANGED req
       ELSE /\ req' = [req EXCEPT ![t] = [pc |-> "due_for_month", asof |-> asof,
                                          member_start |-> member_start,
                                          months |-> months_between(member_start, asof),
                                          total |-> 0, cap |-> 0]]
            /\ UNCHANGED <<ret, q_asof, q_start>>
    /\ UNCHANGED settings
    /\ ledger_idle

\* one turn of the loop: due_for_month up to its first read of a setting. For
\* October 2025 the fee is the only setting read; for another month
\* monthly_cap() is read first, the first argument of min
due_for_month_enter(t) ==
    /\ req[t].pc = "due_for_month"
    /\ req[t].months # <<>>
    /\ LET r     == req[t]
           year  == Head(r.months)[1]
           month == Head(r.months)[2]
           m_start   == Date(year, month, 1)
           eff_start == DateMax(m_start, r.member_start)
           eff_end   == DateMin(month_end(m_start), r.asof)
       IN  IF YmLT(year, month, r.member_start.year, r.member_start.month)
           THEN req' = [req EXCEPT ![t].months = Tail(r.months)]
           ELSE IF year = 2025 /\ month = 10
           THEN req' = [req EXCEPT ![t].months = Tail(r.months),
                                   ![t].total = r.total + special_month(r.asof, r.member_start)]
           ELSE IF DateLT(eff_end, eff_start)
           THEN req' = [req EXCEPT ![t].months = Tail(r.months)]
           ELSE req' = [req EXCEPT ![t].cap = monthly_cap, ![t].pc = "daily_amount"]
    /\ UNCHANGED <<settings, ret, q_asof, q_start>>
    /\ ledger_idle

\* daily_amount() is read, the month's due is min(cap, daily * days)
due_for_month_daily_amount(t) ==
    /\ req[t].pc = "daily_amount"
    /\ LET r     == req[t]
           m_start   == Date(Head(r.months)[1], Head(r.months)[2], 1)
           eff_start == DateMax(m_start, r.member_start)
           eff_end   == DateMin(month_end(m_start), r.asof)
           days      == (ToOrdinal(eff_end) - ToOrdinal(eff_start)) + 1
       IN  req' = [req EXCEPT ![t].months = Tail(r.months),
                              ![t].total = r.total + Min(r.cap, daily_amount * days),
                              ![t].pc = "due_for_month"]
    /\ UNCHANGED <<settings, ret, q_asof, q_start>>
    /\ ledger_idle

\* the loop is over: return total
due_total_as_of_return(t) ==
    /\ req[t].pc = "due_for_month"
    /\ req[t].months = <<>>
    /\ ret' = [fn |-> "due_total_as_of", year |-> 0, month |-> 0, val |-> req[t].total]
    /\ q_asof' = req[t].asof
    /\ q_start' = req[t].member_start
    /\ req' = [req EXCEPT ![t] = Idle]
    /\ UNCHANGED settings
    /\ ledger_idle

\* the settings admin_config_save writes, in the order of its set_setting calls
SaveOrder == <<"project_start_date", "daily_amount", "monthly_cap", "oct_2025_fixed">>

\* POST /admin/config/save on thread t, up to the first set_setting: the form
\* is validated. The configuration is saved once in a behaviour.
admin_config_save_begin(t, start_in, daily_amount_in, monthly_cap_in, oct_2025_fixed_in) ==
    /\ req[t].pc = "idle"
    /\ settings = init_db_settings
    /\ \A u \in Threads : req[u].pc # "set_setting"
    /\ IF ~IsIsoDate(start_in)
       THEN UNCHANGED req
       ELSE IF daily_amount_in < 0 \/ monthly_cap_in < 0 \/ oct_2025_fixed_in < 0
       THEN UNCHANGED req
       ELSE req' = [req EXCEPT ![t] =
                      [pc |-> "set_setting", k |-> 1,
                       form |-> <<start_in, IntToStr(daily_amount_in),
                                  IntToStr(monthly_cap_in), IntToStr(oct_2025_fixed_in)>>]]
    /\ UNCHANGED <<settings, ret, q_asof, q_start>>
    /\ ledger_idle

\* the next set_setting call of the save on thread t
admin_config_save_set_setting(t) ==
    /\ req[t].pc = "set_setting"
    /\ settings' = set_setting(settings, SaveOrder[req[t].k], req[t].form[req[t].k])
    /\ req' = [req EXCEPT ![t] = IF req[t].k = Len(SaveOrder) THEN Idle
                                 ELSE [req[t] EXCEPT !.k = @ + 1]]
    /\ UNCHANGED <<ret, q_asof, q_start>>
    /\ ledger_idle

\* the calls of due_total_as_of made: <<member_start, asof>>
DueCalls ==
    { <<Date(2025, 10, 15), Date(2025, 10, 20)>>,
      <<Date(2025, 10, 15), Date(2025, 11, 30)>>,
      <<Date(2025, 10, 15), Date(2025, 12, 31)>>,
      <<Date(2025, 11, 10), Date(2025, 12, 31)>>,
      <<Date(2025, 11, 10), Date(2025, 10, 20)>> }

\* the forms saved: <<start date, daily, cap, fixed fee>>
DueConfigForms ==
    { <<DEFAULT_START_DATE, 1000, 20000, 0>>,
      <<DEFAULT_START_DATE, 2000, 60000, 10000>>,
      <<DEFAULT_START_DATE, 2000, 0 - 1, 30000>>,
      <<BadDateText, 1000, 20000, 0>> }

NextDue ==
    \/ \E t \in Threads, c \in DueCalls : due_total_as_of_begin(t, c[2], c[1])
    \/ \E t \in Threads : due_for_month_enter(t)
    \/ \E t \in Threads : due_for_month_daily_amount(t)
    \/ \E t \in Threads : due_total_as_of_return(t)
    \/ \E t \in Threads, c \in DueConfigForms :
           admin_config_save_begin(t, c[1], c[2], c[3], c[4])
    \/ \E t \in Threads : admin_config_save_set_setting(t)

SpecDue == InitRace /\ [][NextDue]_vars


-----------------------------------------------------------------------------
(* The payments ledger under payments of every mode, dated before and after
   the project start *)

\* forms submitted to /admin/add-payment and /admin/compta/add:
\* <<pay_date, amount, mode>>
StatsPayForms ==
    { <<IsoFormat(Date(2025, 9, 20)), 10000, "cash">>,
      <<IsoFormat(Date(2025, 11, 10)), 40000, "wave">>,
      <<IsoFormat(Date(2025, 11, 12)), 20000, "om">>,
      <<IsoFormat(Date(2025, 12, 15)), 40000, "wave">>,
      <<IsoFormat(Date(2025, 11, 10)), 40000, "virement">> }

NextStats ==
    \/ clock_advance
    \/ \E i \in MemberIds, f \in StatsPayForms : admin_add_payment(i, f[1], f[2], f[3])
    \/ \E i \in MemberIds, f \in StatsPayForms : admin_compta_add(i, f[1], f[2], f[3])
    \/ \E i \in PaymentIds : admin_delete_payment(i)
    \/ \E d \in StopDateInputs : admin_project_stop(d)
    \/ admin_project_resume

SpecStats == Init /\ [][NextStats]_vars

-----------------------------------------------------------------------------
(* The members table under creations and updates *)

Phone3 == <<55, 56, 48, 48, 48, 48, 48, 48, 51>>   \* "780000003"
Name1 == <<65, 119, 97>>                           \* "Awa"

\* forms submitted to /admin/member/update: <<full_name, phone>>
UpdateForms ==
    { <<Name1, Phone1>>, <<Name1, Phone2>>, <<Name1, Phone3>>,
      <<<<>>, Phone3>>, <<Name1, BadPhone>> }

NextMembers ==
    \/ clock_advance
    \/ \E f \in MemberForms : admin_add_member(f[1], f[2], f[3])
    \/ \E i \in 1..(MaxMembers + 1), f \in UpdateForms : admin_update_member(i, f[1], f[2])
    \/ \E i \in MemberIds : admin_deactivate_member(i)
    \/ \E i \in MemberIds : admin_activate_member(i)

SpecMembers == Init /\ [][NextMembers]_vars

-----------------------------------------------------------------------------
(* The project stopped and resumed, with stop dates inside October 2025 *)

\* forms submitted to /admin/project/stop
EarlyStopDateInputs == StopDateInputs \cup {IsoFormat(Date(2025, 10, 20))}

NextStop ==
    \/ clock_advance
    \/ \E f \in MemberForms : admin_add_member(f[1], f[2], f[3])
    \/ \E i \in MemberIds : admin_deactivate_member(i)
    \/ \E i \in MemberIds : admin_activate_member(i)
    \/ \E d \in EarlyStopDateInputs : admin_project_stop(d)
    \/ admin_project_resume

SpecStop == Init /\ [][NextStop]_vars

-----------------------------------------------------------------------------
(* The configuration under saves of every kind *)

\* forms submitted to /admin/config/save:
\* <<project_start_date, daily_amount_in, monthly_cap_in, oct_2025_fixed_in>>
ConfigForms ==
    {DEFAULT_START_DATE, IsoFormat(Date(2025, 11, 1)), BadDateText}
    \X {2000, 1000, 0, 0 - 1} \X {60000, 20000, 0} \X {30000, 0}

NextConfig ==
    \/ clock_advance
    \/ \E c \in ConfigForms : admin_config_save(c[1], c[2], c[3], c[4])
    \/ \E d \in StopDateInputs : admin_project_stop(d)
    \/ admin_project_resume

SpecConfig == Init /\ [][NextConfig]_vars

-----------------------------------------------------------------------------
(* Properties of the accrual calculator, checked under SpecCalc *)

IsDueForMonth == ret.fn = "due_for_month"
IsDueTotal == ret.fn = "due_total_as_of"
DefaultAmounts ==
    /\ settings["daily_amount"] = DEFAULT_DAILY_AMOUNT
    /\ settings["monthly_cap"] = DEFAULT_MONTHLY_CAP
    /\ settings["oct_2025_fixed"] = DEFAULT_OCT_2025_FIXED

InMonth(d, y, m) == d.year = y /\ d.month = m

\* the days of month (y, m) that lie in [member_start, asof], counted one by one
WindowDays(y, m, asof, member_start) ==
    Cardinality({x \in AsofDates : /\ InMonth(x, y, m)
                                   /\ ToOrdinal(member_start) <= ToOrdinal(x)
                                   /\ ToOrdinal(x) <= ToOrdinal(asof)})

RECURSIVE SumDue(_, _, _)
\* the sum of due_for_month over a set of (year, month) pairs
SumDue(S, asof, member_start) ==
    IF S = {} THEN 0
    ELSE LET ym == CHOOSE x \in S : TRUE
         IN  due_for_month(ym[1], ym[2], asof, member_start)
             + SumDue(S \ {ym}, asof, member_start)

\* C1: for a member enrolled in October 2025, due_for_month(2025, 10) is 0 for
\* every asof before 2025-10-31 and the configured fixed fee from 2025-10-31 on.
C1_SpecialMonthStep ==
    (IsDueForMonth /\ ret.year = 2025 /\ ret.month = 10 /\ InMonth(q_start, 2025, 10))
    => ret.val = (IF ToOrdinal(q_asof) < ToOrdinal(Date(2025, 10, 31))
                  THEN 0 ELSE StrToInt(settings["oct_2025_fixed"]))

\* C1 witness: enrolled on the last day of October, asked on that day: the fee in full
C1_Witness ==
    /\ IsDueForMonth /\ ret.year = 2025 /\ ret.month = 10
    /\ q_start = Date(2025, 10, 31) /\ q_asof = Date(2025, 10, 31)
    /\ ret.val = 30000

\* C2 as the specification states it: enrolled 2025-10-15 under the default
\* amounts, the total due is 0 on 2025-10-20, 30000 on 2025-10-31 and 30000 on
\* 2025-11-01.
C2_Original ==
    (IsDueTotal /\ DefaultAmounts /\ q_start = Date(2025, 10, 15))
    => /\ q_asof = Date(2025, 10, 20) => ret.val = 0
       /\ q_asof = Date(2025, 10, 31) => ret.val = 30000
       /\ q_asof = Date(2025, 11, 1) => ret.val = 30000

\* C2 amended: the total due is 0 on 2025-10-20, 30000 on 2025-10-31 and 32000
\* on 2025-11-01 (the October fee plus the first day of November).
C2_StepValues ==
    (IsDueTotal /\ DefaultAmounts /\ q_start = Date(2025, 10, 15))
    => /\ q_asof = Date(2025, 10, 20) => ret.val = 0
       /\ q_asof = Date(2025, 10, 31) => ret.val = 30000
       /\ q_asof = Date(2025, 11, 1) => ret.val = 32000

C2_Witness ==
    /\ IsDueTotal /\ DefaultAmounts
    /\ q_start = Date(2025, 10, 15) /\ q_asof = Date(2025, 11, 1)
    /\ ret.val = 32000

\* C3: for a month other than October 2025 and not before the enrollment month,
\* due_for_month is min(monthly_cap, daily_amount * d), d the number of days of
\* the month within [enrollment, asof], and 0 when there is no such day.
C3_GeneralMonth ==
    /\ (IsDueForMonth /\ <<ret.year, ret.month>> # <<2025, 10>>
        /\ ~YmLT(ret.year, ret.month, q_start.year, q_start.month))
       => LET d == WindowDays(ret.year, ret.month, q_asof, q_start)
          IN  ret.val = (IF d = 0 THEN 0
                         ELSE Min(StrToInt(settings["monthly_cap"]),
                                  StrToInt(settings["daily_amount"]) * d))
    /\ (IsDueForMonth /\ DefaultAmounts /\ q_start = Date(2025, 10, 15)
        /\ ret.year = 2025 /\ ret.month = 11)
       => /\ q_asof = Date(2025, 11, 30) => ret.val = 60000
          /\ q_asof = Date(2025, 11, 15) => ret.val = 30000

\* C3 witness: December asked on its last day, 31 days at 2000 capped at 60000
C3_Witness ==
    /\ IsDueForMonth /\ DefaultAmounts
    /\ ret.year = 2025 /\ ret.month = 12
    /\ q_start = Date(2025, 10, 15) /\ q_asof = Date(2025, 12, 31)
    /\ ret.val = 60000

\* C4: due_total_as_of is the sum of due_for_month over exactly the months from
\* the enrollment month to the month of asof, and 0 when asof precedes enrollment.
C4_TotalIsSumOfMonths ==
    /\ IsDueTotal
       => ret.val =
            (IF ToOrdinal(q_asof) < ToOrdinal(q_start) THEN 0
             ELSE SumDue({ym \in CalcMonths :
                            /\ YmLE(q_start.year, q_start.month, ym[1], ym[2])
                            /\ YmLE(ym[1], ym[2], q_asof.year, q_asof.month)},
                         q_asof, q_start))
    /\ (IsDueTotal /\ DefaultAmounts /\ q_start = Date(2025, 12, 1))
       => /\ q_asof = Date(2025, 11, 30) => ret.val = 0
          /\ q_asof = Date(2025, 12, 1) => ret.val = 2000

\* C4 witness: a total spanning the year end, four months summed
C4_Witness ==
    /\ IsDueTotal /\ DefaultAmounts
    /\ q_start = Date(2025, 10, 15) /\ q_asof = Date(2026, 1, 2)
    /\ ret.val = 30000 + 60000 + 60000 + 4000

\* C5: for a fixed member and configuration, due_total_as_of does not decrease
\* when asof advances.
C5_Monotone ==
    [][(IsDueTotal /\ IsDueTotal' /\ DateLT(q_asof, q_asof')
        /\ q_start' = q_start /\ settings' = settings)
       => ret'.val >= ret.val]_vars

\* C5 witness: the total on the first day of the new year, after October's
\* step and two month ends
C5_Witness ==
    /\ IsDueTotal /\ DefaultAmounts
    /\ q_start = Date(2025, 10, 15) /\ q_asof = Date(2026, 1, 1)
    /\ ret.val = 152000

\* C6 as the specification states it: whatever configuration was saved,
\* due_for_month never exceeds monthly_cap.
C6_CapBoundsEveryMonth ==
    IsDueForMonth => ret.val <= StrToInt(settings["monthly_cap"])

\* C7 as the specification states it: for October 2025 a member enrolled later
\* owes 0, a member enrolled in October 2025 owes the fee by the step rule, and
\* a member enrolled earlier owes the general prorated, capped amount.
C7_FixedFeeOnlyForOctoberEnrollment ==
    (IsDueForMonth /\ ret.year = 2025 /\ ret.month = 10)
    => /\ YmLT(2025, 10, q_start.year, q_start.month) => ret.val = 0
       /\ YmLT(q_start.year, q_start.month, 2025, 10)
          => LET d == WindowDays(2025, 10, q_asof, q_start)
             IN  ret.val = (IF d = 0 THEN 0
                            ELSE Min(StrToInt(settings["monthly_cap"]),
                                     StrToInt(settings["daily_amount"]) * d))

-----------------------------------------------------------------------------
(* Properties of the stopped project and of the payments ledger, checked under Spec *)

StopText == settings["project_end_date"]
StoppedOn(d) == StopText = IsoFormat(d)
StartOf(i) == FromIsoFormat(members[i].start_date)

\* C8 as the specification states it: with the stop date 2025-11-20,
\* due_total_as_of(2025-12-31) equals due_total_as_of(2025-11-20) for every member.
C8_Original ==
    StoppedOn(Date(2025, 11, 20))
    => \A i \in DOMAIN members :
          due_total_as_of(Date(2025, 12, 31), StartOf(i))
          = due_total_as_of(Date(2025, 11, 20), StartOf(i))

\* C8 amended: with the stop date 2025-11-20 and today 2025-12-31, the as-of
\* date is 2025-11-20, and the amount due at the as-of date, which is the amount
\* shown for every active member, is due_total_as_of(2025-11-20).
C8_FrozenAtStop ==
    (StoppedOn(Date(2025, 11, 20)) /\ today = Date(2025, 12, 31))
    => \A i \in DOMAIN members :
          /\ due_total_as_of(as_of_date, StartOf(i))
             = due_total_as_of(Date(2025, 11, 20), StartOf(i))
          /\ members[i].is_active = 1
             => shown_status(i, as_of_date).due = due_total_as_of(Date(2025, 11, 20), StartOf(i))
          /\ (members[i].is_active = 1 /\ StartOf(i) = Date(2025, 10, 15))
             => me(i).st.due = 70000

\* C8 witness: stopped on 2025-11-20, today 2025-12-31, a member enrolled
\* 2025-10-15 is shown 70000 due
C8_Witness ==
    /\ StoppedOn(Date(2025, 11, 20)) /\ today = Date(2025, 12, 31)
    /\ \E i \in DOMAIN members :
          /\ members[i].is_active = 1 /\ StartOf(i) = Date(2025, 10, 15)
          /\ shown_status(i, as_of_date).due = 70000

\* everything the live pages compute
LiveViewAt(t) == [dashboard |-> admin_dashboard_at(t), mine |-> [i \in MemberIds |-> me_at(i, t)]]

\* the as-of date, worked out on day numbers
AsOfIsClampedToday ==
    as_of_date =
        IF StopText = <<>> THEN today
        ELSE IF ToOrdinal(today) <= ToOrdinal(FromIsoFormat(StopText))
             THEN today ELSE FromIsoFormat(StopText)

\* C9: the as-of date is min(today, stop date) when a stop date is set and
\* today otherwise; while the project is stopped and today has reached the stop
\* date, a step that only advances today changes nothing the live pages show.
C9_FrozenWhileStopped ==
    /\ []AsOfIsClampedToday
    /\ [][(/\ StopText # <<>>
           /\ ToOrdinal(FromIsoFormat(StopText)) <= ToOrdinal(today)
           /\ DateLT(today, today')
           /\ UNCHANGED <<settings, members, payments, bank_deposits>>)
          => \A t \in {today'} : LiveViewAt(t) = LiveViewAt(today)]_vars

\* C9 witness: stopped on 2025-11-20, today past it, an active member in
\* arrears who has paid once before the stop date and once after it
C9_Witness ==
    /\ StoppedOn(Date(2025, 11, 20)) /\ today = Date(2025, 12, 31)
    /\ \E i \in DOMAIN members :
          /\ members[i].is_active = 1 /\ StartOf(i) = Date(2025, 10, 15)
          /\ \E p \in payments : p.member_id = i /\ p.pay_date = IsoFormat(Date(2025, 11, 10))
          /\ \E p \in payments : p.member_id = i /\ p.pay_date = IsoFormat(Date(2025, 12, 15))
          /\ me(i).st.due = 70000 /\ me(i).st.paid = 40000 /\ me(i).st.rest = 30000
    /\ admin_dashboard.collected = 40000

\* as-of dates the ledger is asked about
QueryDates ==
    {Date(2025, 11, 9), Date(2025, 11, 10), Date(2025, 12, 14), Date(2025, 12, 15),
     Date(2025, 12, 31)}

RECURSIVE PaidById(_, _, _)
\* the amounts of the payments numbered 1..n that belong to member m and are
\* dated asof or earlier, added up payment by payment
PaidById(n, m, asof) ==
    IF n = 0 THEN 0
    ELSE LET hit == {p \in payments :
                        /\ p.id = n
                        /\ p.member_id = m
                        /\ ToOrdinal(FromIsoFormat(p.pay_date)) <= ToOrdinal(asof)}
         IN  (IF hit = {} THEN 0 ELSE (CHOOSE p \in hit : TRUE).amount)
             + PaidById(n - 1, m, asof)

\* C10: paid_total_as_of(member, asof) is the sum of the amounts of exactly the
\* payments of that member dated asof or earlier.
C10_PaidTotal ==
    \A m \in MemberIds, a \in QueryDates :
        paid_total_as_of(m, a) = PaidById(seq["payments"], m, a)

\* C10 witness: member 1 paid on 2025-11-10, another payment (of member 2, or
\* dated 2025-12-15) is recorded; as of 2025-11-10 member 1 has paid 40000,
\* as of the day before nothing
C10_Witness ==
    /\ Cardinality(payments) = 2
    /\ \E p \in payments : p.member_id = 1 /\ p.pay_date = IsoFormat(Date(2025, 11, 10))
    /\ \E p \in payments : p.member_id = 2 /\ p.pay_date = IsoFormat(Date(2025, 11, 10))
    /\ paid_total_as_of(1, Date(2025, 11, 10)) = 40000
    /\ paid_total_as_of(1, Date(2025, 11, 9)) = 0

-----------------------------------------------------------------------------
(* Properties of the member status, checked under Spec *)

\* as-of dates a status is asked for
StatusDates == QueryDates \cup {Date(2025, 11, 25)}

StatusOf(i, a) == member_status(i, StartOf(i), a)

\* C11: for every active member and as-of date, balance = paid - due,
\* rest = max(0, due - paid), avance = max(0, paid - due), rest and avance are
\* never both non-zero, and the label is "A jour" exactly when rest = 0 and
\* "En retard" otherwise.
C11_StatusFields ==
    \A i \in DOMAIN members, a \in StatusDates :
        members[i].is_active = 1 =>
            LET st == StatusOf(i, a)
            IN  /\ st.due = due_total_as_of(a, StartOf(i))
                /\ st.paid = PaidById(seq["payments"], i, a)
                /\ st.balance = st.paid - st.due
                /\ st.rest = (IF st.due > st.paid THEN st.due - st.paid ELSE 0)
                /\ st.avance = (IF st.paid > st.due THEN st.paid - st.due ELSE 0)
                /\ ~(st.rest # 0 /\ st.avance # 0)
                /\ st.status \in {"A jour", "En retard"}
                /\ st.status = "A jour" <=> st.rest = 0

\* C11 witness: as of 2025-11-10 an active member enrolled 2025-10-15 who paid
\* 40000 of the 50000 due is late, and an active member enrolled 2025-12-01
\* who paid 40000 is 40000 ahead
C11_Witness ==
    \E i, j \in DOMAIN members :
        /\ members[i].is_active = 1 /\ members[j].is_active = 1
        /\ StatusOf(i, Date(2025, 11, 10)).rest = 10000
        /\ StatusOf(i, Date(2025, 11, 10)).status = "En retard"
        /\ StatusOf(j, Date(2025, 11, 10)).avance = 40000
        /\ StatusOf(j, Date(2025, 11, 10)).status = "A jour"

\* C12 as the specification states it: rest - avance = paid - due, and exactly
\* one of rest and avance is zero unless the balance is zero.
C12_Original ==
    \A i \in DOMAIN members, a \in StatusDates :
        LET st == StatusOf(i, a)
        IN  /\ st.rest - st.avance = st.paid - st.due
            /\ st.paid # st.due => ((st.rest = 0) # (st.avance = 0))

\* C12 amended: for all members and as-of dates avance - rest = paid - due
\* (so rest - avance = due - paid), both are zero when paid = due, and exactly
\* one of them is zero otherwise.
C12_BalanceIdentity ==
    \A i \in DOMAIN members, a \in StatusDates :
        LET st == StatusOf(i, a)
        IN  /\ st.avance - st.rest = st.paid - st.due
            /\ st.rest - st.avance = st.due - st.paid
            /\ st.paid = st.due => (st.rest = 0 /\ st.avance = 0)
            /\ st.paid # st.due => ((st.rest = 0) # (st.avance = 0))

\* C12 witness: the three cases of the identity on one member enrolled
\* 2025-10-15 who paid 40000 twice on 2025-11-10: 48000 behind as of
\* 2025-11-09, 30000 ahead as of 2025-11-10, exactly the 80000 due paid as of
\* 2025-11-25
C12_Witness ==
    \E i \in DOMAIN members :
        /\ StartOf(i) = Date(2025, 10, 15)
        /\ StatusOf(i, Date(2025, 11, 9)).rest = 48000
        /\ StatusOf(i, Date(2025, 11, 9)).avance = 0
        /\ StatusOf(i, Date(2025, 11, 10)).avance = 30000
        /\ StatusOf(i, Date(2025, 11, 10)).rest = 0
        /\ StatusOf(i, Date(2025, 11, 25)).due = 80000
        /\ StatusOf(i, Date(2025, 11, 25)).paid = 80000
        /\ StatusOf(i, Date(2025, 11, 25)).rest = 0
        /\ StatusOf(i, Date(2025, 11, 25)).avance = 0

-----------------------------------------------------------------------------
(* Properties of deactivated members, checked under Spec *)

InactiveReport ==
    [due |-> 0, paid |-> 0, rest |-> 0, avance |-> 0, balance |-> 0, status |-> "Desactive"]

RECURSIVE ActiveTotal(_, _)
\* the field f of the statuses at the as-of date of the active members among
\* members 1..n, added up member by member
ActiveTotal(n, f) ==
    IF n = 0 THEN 0
    ELSE (IF members[n].is_active = 1 THEN StatusOf(n, as_of_date)[f] ELSE 0)
         + ActiveTotal(n - 1, f)

\* C13: a member whose active flag is off is reported, on the dashboard and on
\* the member page, with due = paid = rest = avance = 0 and the status
\* "Desactive" whatever the ledger holds, and the dashboard's totals and its
\* current/late counts are those of the active members alone.
C13_InactiveReportedZero ==
    LET d == admin_dashboard
        active == {i \in DOMAIN members : members[i].is_active = 1}
    IN  /\ \A i \in DOMAIN members :
              members[i].is_active # 1
              => /\ d.rows[i] = InactiveReport
                 /\ shown_status(i, as_of_date) = InactiveReport
        /\ d.total_due = ActiveTotal(Len(members), "due")
        /\ d.total_paid = ActiveTotal(Len(members), "paid")
        /\ d.total_rest = ActiveTotal(Len(members), "rest")
        /\ d.total_avance = ActiveTotal(Len(members), "avance")
        /\ d.ok_count = Cardinality({i \in active : StatusOf(i, as_of_date).rest = 0})
        /\ d.late_count = Cardinality({i \in active : StatusOf(i, as_of_date).rest > 0})
        /\ d.ok_count + d.late_count = Cardinality(active)

\* C13 witness: a deactivated member with accrual and a recorded payment next
\* to an active member in arrears; the dashboard counts only the latter
C13_Witness ==
    \E i, j \in DOMAIN members :
        /\ members[i].is_active = 0 /\ members[j].is_active = 1
        /\ StatusOf(i, as_of_date).due > 0 /\ StatusOf(i, as_of_date).paid > 0
        /\ StatusOf(j, as_of_date).rest > 0
        /\ admin_dashboard.total_due = StatusOf(j, as_of_date).due
        /\ admin_dashboard.total_paid = 0
        /\ admin_dashboard.late_count = 1 /\ admin_dashboard.ok_count = 0

-----------------------------------------------------------------------------
(* Properties of the bank ledger, checked under Spec *)

RECURSIVE CollectedById(_, _)
\* the amounts of the payments numbered 1..n dated asof or earlier, added up
\* payment by payment
CollectedById(n, asof) ==
    IF n = 0 THEN 0
    ELSE LET hit == {p \in payments :
                        /\ p.id = n
                        /\ ToOrdinal(FromIsoFormat(p.pay_date)) <= ToOrdinal(asof)}
         IN  (IF hit = {} THEN 0 ELSE (CHOOSE p \in hit : TRUE).amount)
             + CollectedById(n - 1, asof)

RECURSIVE DepositedById(_, _)
\* the amounts of the bank deposits numbered 1..n dated asof or earlier
DepositedById(n, asof) ==
    IF n = 0 THEN 0
    ELSE LET hit == {b \in bank_deposits :
                        /\ b.id = n
                        /\ ToOrdinal(FromIsoFormat(b.dep_date)) <= ToOrdinal(asof)}
         IN  (IF hit = {} THEN 0 ELSE (CHOOSE b \in hit : TRUE).amount)
             + DepositedById(n - 1, asof)

\* C14: as of any date, collected is the sum of all payments dated asof or
\* earlier, whoever the member and whether active or not, deposited is the sum
\* of all bank deposits dated asof or earlier, and the available balance the
\* dashboard shows is max(0, collected - deposited), never negative.
C14_SchemeTotals ==
    /\ \A a \in QueryDates :
          /\ total_collected_as_of(a) = CollectedById(seq["payments"], a)
          /\ total_deposited_as_of(a) = DepositedById(seq["bank_deposits"], a)
    /\ LET d == admin_dashboard
           c == CollectedById(seq["payments"], as_of_date)
           b == DepositedById(seq["bank_deposits"], as_of_date)
       IN  /\ d.collected = c
           /\ d.deposited = b
           /\ d.available_bank = (IF c > b THEN c - b ELSE 0)
           /\ d.available_bank >= 0

\* C14 witness: on 2025-12-31 the only payment, of a deactivated member, is
\* counted in collected; both deposits are counted, more than was collected,
\* and the available balance is 0; as of 2025-11-10 the deposit dated
\* 2025-12-15 is not counted
C14_Witness ==
    /\ today = Date(2025, 12, 31) /\ StopText = <<>>
    /\ \E p \in payments :
          /\ p.member_id \in DOMAIN members /\ members[p.member_id].is_active = 0
          /\ p.pay_date = IsoFormat(Date(2025, 11, 10))
    /\ \E b \in bank_deposits : b.dep_date = IsoFormat(Date(2025, 12, 15))
    /\ admin_dashboard.collected = 40000
    /\ admin_dashboard.deposited = 80000
    /\ admin_dashboard.available_bank = 0
    /\ total_deposited_as_of(Date(2025, 11, 10)) = 40000

\* amounts proposed to the deposit guard
GuardAmounts == {1, 39999, 40000, 40001, 80000, 80001}

\* the available balance at the as-of date, from the rows of the two ledgers
AvailableNow ==
    LET c == CollectedById(seq["payments"], as_of_date)
        b == DepositedById(seq["bank_deposits"], as_of_date)
    IN  IF c > b THEN c - b ELSE 0

ValidDepositForms ==
    {f \in DepositForms \cup ({IsoFormat(Date(2025, 11, 10))} \X GuardAmounts) :
        IsIsoDate(f[1]) /\ f[2] > 0}

\* what the deposit guard answers to every well-formed deposit
GuardAnswersByAvailable ==
    LET av == AvailableNow
    IN  \A f \in ValidDepositForms :
            LET r == admin_add_bank_deposit_response(f[1], f[2])
            IN  IF f[2] > av
                THEN r = [page |-> "Erreur", text |-> "Montant > solde disponible.",
                          available |-> av]
                ELSE r = [page |-> "redirect", text |-> "/admin/comptabilite"]

\* C15: a well-formed deposit is rejected exactly when its amount is greater
\* than the available balance at the current as-of date, and the rejection
\* reports that balance; a deposit up to and including the available balance is
\* accepted; a step that inserts a deposit record inserts one the guard
\* accepts, of an amount within the available balance, and changes no other
\* record, so a rejected deposit inserts nothing.
C15_DepositGuard ==
    /\ []GuardAnswersByAvailable
    /\ [][(bank_deposits' \ bank_deposits # {})
          => \A av \in {AvailableNow} :
                \E b \in bank_deposits' \ bank_deposits :
                    /\ bank_deposits' = bank_deposits \cup {b}
                    /\ b.amount <= av
                    /\ admin_add_bank_deposit_response(b.dep_date, b.amount).page = "redirect"
                    /\ UNCHANGED <<settings, members, payments>>]_vars

\* C15 witness: 80000 collected, 40000 deposited: a deposit of 40000 is
\* accepted and one of 40001 is rejected with available = 40000
C15_Witness ==
    /\ AvailableNow = 40000
    /\ admin_dashboard.collected = 80000 /\ admin_dashboard.deposited = 40000
    /\ admin_add_bank_deposit_response(IsoFormat(Date(2025, 11, 10)), 40000).page = "redirect"
    /\ admin_add_bank_deposit_response(IsoFormat(Date(2025, 11, 10)), 40001).page = "Erreur"
    /\ admin_add_bank_deposit_response(IsoFormat(Date(2025, 11, 10)), 40001).available = 40000

\* C16 as the specification states it: in every state reached by recording and
\* deleting payments, recording deposits through the guard with any deposit
\* date, deleting deposits, and stopping or resuming, the recorded bank
\* deposits add up to no more than the recorded payments.
C16_DepositedAtMostCollected ==
    SumAmount(bank_deposits) <= SumAmount(payments)

-----------------------------------------------------------------------------
(* Properties of overlapping requests, checked under SpecRace *)

\* C17 as the specification states it: also when deposit requests overlap each
\* other or a payment deletion, every deposit that is inserted has an amount
\* within the available balance at the moment of its insertion.
C17_GuardAndInsertAtomic ==
    [][(bank_deposits' \ bank_deposits # {})
       => \A av \in {AvailableNow} :
             \A b \in bank_deposits' \ bank_deposits : b.amount <= av]_vars

-----------------------------------------------------------------------------
(* Properties of the monthly statistics, checked under SpecStats *)

\* as-of dates the statistics are asked for: before the project start, and
\* before, on and after the payment dates
StatsDates ==
    {Date(2025, 9, 25), Date(2025, 10, 31), Date(2025, 11, 10), Date(2025, 11, 11),
     Date(2025, 12, 31)}

\* the calendar months the statistics may speak of
StatsMonths == {<<2025, m>> : m \in 8..12} \cup {<<2026, 1>>}

YmKey(ym) == Pad(ym[1], 4) \o <<ChDash>> \o Pad(ym[2], 2)

\* the payments of the calendar month ym dated asof or earlier, on day numbers
PaidInMonth(ym, asof) ==
    {p \in payments :
        /\ FromIsoFormat(p.pay_date).year = ym[1]
        /\ FromIsoFormat(p.pay_date).month = ym[2]
        /\ ToOrdinal(FromIsoFormat(p.pay_date)) <= ToOrdinal(asof)}

RECURSIVE SumById(_, _)
\* the amounts of the rows numbered 1..n among rows, added up row by row
SumById(n, rows) ==
    IF n = 0 THEN 0
    ELSE LET hit == {r \in rows : r.id = n}
         IN  (IF hit = {} THEN 0 ELSE (CHOOSE r \in hit : TRUE).amount) + SumById(n - 1, rows)

RECURSIVE SumTotals(_, _)
SumTotals(stats, n) == IF n = 0 THEN 0 ELSE stats[n].total + SumTotals(stats, n - 1)

BreakdownContent(asof) ==
    LET stats == monthly_collection_stats(asof)
        start == project_start_date
        InRange(ym) == /\ YmLE(start.year, start.month, ym[1], ym[2])
                       /\ YmLE(ym[1], ym[2], asof.year, asof.month)
    IN  /\ \A ym \in StatsMonths :
              LET paid == PaidInMonth(ym, asof)
                  at   == {i \in DOMAIN stats : stats[i].ym = YmKey(ym)}
              IN  /\ Cardinality(at) = (IF InRange(ym) \/ paid # {} THEN 1 ELSE 0)
                  /\ \A i \in at : stats[i].total = SumById(seq["payments"], paid)
        /\ \A i \in DOMAIN stats : \E ym \in StatsMonths : stats[i].ym = YmKey(ym)
        /\ SumTotals(stats, Len(stats)) = CollectedById(seq["payments"], asof)

\* C18: the statistics as of a date hold exactly one entry for every month from
\* the month of the project start to the month of the as-of date, with total 0
\* when the month has no payment, and one for every other month that has a
\* payment dated on or before the as-of date; each entry's total is the sum of
\* the month's payments dated on or before the as-of date, so no such payment
\* is missing and no later payment is counted.
C18_BreakdownContent ==
    /\ \A a \in StatsDates : BreakdownContent(a)
    /\ BreakdownContent(as_of_date)

\* C18 witness: a payment dated 2025-09-20, before the project start, one dated
\* 2025-12-15; as of 2025-11-10 the statistics hold 2025-10 and 2025-11 with
\* total 0, and 2025-09 with 10000
C18_Witness ==
    /\ as_of_date = Date(2025, 11, 10)
    /\ \E p \in payments : p.pay_date = IsoFormat(Date(2025, 9, 20))
    /\ \E p \in payments : p.pay_date = IsoFormat(Date(2025, 12, 15))
    /\ LET stats == monthly_collection_stats(as_of_date)
       IN  /\ Len(stats) = 3
           /\ \E i \in DOMAIN stats : stats[i].ym = YmKey(<<2025, 10>>) /\ stats[i].total = 0
           /\ \E i \in DOMAIN stats : stats[i].ym = YmKey(<<2025, 11>>) /\ stats[i].total = 0
           /\ \E i \in DOMAIN stats : stats[i].ym = YmKey(<<2025, 9>>) /\ stats[i].total = 10000

\* C19 as the specification states it: whatever payments are recorded, the
\* entries of the statistics, and the labels of the chart drawn from them, are
\* in chronological order of their month keys.
C19_BreakdownOrdered ==
    /\ \A a \in StatsDates :
          LET stats == monthly_collection_stats(a)
          IN  \A i, j \in DOMAIN stats : i < j => StrLT(stats[i].ym, stats[j].ym)
    /\ \A i, j \in DOMAIN admin_resume.labels :
          i < j => StrLT(admin_resume.labels[i], admin_resume.labels[j])

-----------------------------------------------------------------------------
(* Properties of recorded payments, checked under Spec *)

\* C20 as the specification states it: a payment naming a member that is not
\* in the store is rejected and inserts nothing, so every recorded payment
\* belongs to a member of the store.
C20_PaymentsBelongToMembers ==
    \A p \in payments : p.member_id \in DOMAIN members

\* C21: a payment or a bank deposit of a non-positive amount is refused: no
\* step records one, and every recorded payment and deposit has a positive
\* amount.
C21_PositiveAmounts ==
    /\ [](/\ \A p \in payments : p.amount \in Nat \ {0}
          /\ \A b \in bank_deposits : b.amount \in Nat \ {0})
    /\ [][/\ \A p \in payments' \ payments : p.amount > 0
          /\ \A b \in bank_deposits' \ bank_deposits : b.amount > 0]_vars

\* C21 witness: forms with the amounts 0 and -5000 are among those submitted,
\* and two payments and a bank deposit, all of 40000, are recorded
C21_Witness ==
    /\ \E f \in PayForms : f[2] = 0
    /\ \E f \in PayForms : f[2] < 0
    /\ \E f \in DepositForms : f[2] = 0
    /\ \E f \in DepositForms : f[2] < 0
    /\ Cardinality(payments) = 2 /\ Cardinality(bank_deposits) = 1
    /\ \A p \in payments : p.amount = 40000
    /\ \A b \in bank_deposits : b.amount = 40000

-----------------------------------------------------------------------------
(* Properties of the members table, checked under SpecMembers *)

\* C22: no two members share a phone; a step that creates a member or changes
\* a member's phone gives it a phone no other member had, and changes no other
\* member record, so a creation or an update with a phone another member uses
\* changes nothing.
C22_UniquePhone ==
    /\ [](\A i, j \in DOMAIN members : i # j => members[i].phone # members[j].phone)
    /\ [][members' # members
          => \E i \in DOMAIN members' :
                /\ \A j \in DOMAIN members : j # i => members'[j] = members[j]
                /\ (i \notin DOMAIN members \/ members'[i].phone # members[i].phone)
                   => \A j \in DOMAIN members : j # i => members[j].phone # members'[i].phone]_vars

\* C22 witness: two members; the member created with the first phone now has
\* the third, and the first phone, free again, cannot be told from a new one
C22_Witness ==
    /\ Len(members) = 2
    /\ members[1].phone = Phone3
    /\ members[2].phone = Phone1

-----------------------------------------------------------------------------
(* Properties of stopping and resuming, checked under SpecStop *)

OtherSettingsUnchanged ==
    \A k \in SettingKeys \ {"project_end_date"} : settings'[k] = settings[k]

\* C23: the stop date stored is empty or a date; a stop request with a valid
\* date stores that date and one with a malformed date leaves the settings
\* unchanged; resume empties the stop date; with no stop date the as-of date
\* is today, and with one it is the earlier of today and the stop date.
C23_StopResume ==
    /\ [](StopText = <<>> \/ IsIsoDate(StopText))
    /\ [](StopText = <<>> => as_of_date = today)
    /\ [](StopText # <<>> => as_of_date = DateMin(today, FromIsoFormat(StopText)))
    /\ [][\A d \in EarlyStopDateInputs :
             admin_project_stop(d)
             => IF IsIsoDate(d)
                THEN settings'["project_end_date"] = d /\ OtherSettingsUnchanged
                ELSE settings' = settings]_vars
    /\ [][admin_project_resume
          => settings'["project_end_date"] = <<>> /\ OtherSettingsUnchanged]_vars

\* C23 witness: stopped on 2025-10-20 while today is 2025-12-31
C23_Witness ==
    /\ StoppedOn(Date(2025, 10, 20)) /\ today = Date(2025, 12, 31)
    /\ as_of_date = Date(2025, 10, 20)
    /\ members # <<>>

\* dates today may reach
FarDates ==
    {Date(2025, 10, 18), Date(2025, 10, 31), Date(2025, 11, 1), Date(2025, 12, 31),
     Date(2026, 6, 30), Date(2027, 1, 1)}

\* C24: while the project is stopped with a stop date earlier than 2025-10-31,
\* the amount due shown for an active member enrolled in October 2025 is 0,
\* today and on whatever date today comes to be: the October 2025 fee is never
\* recognised.
C24_FeeNeverRecognised ==
    (StopText # <<>> /\ DateLT(FromIsoFormat(StopText), Date(2025, 10, 31)))
    => \A i \in DOMAIN members :
          (members[i].is_active = 1 /\ StartOf(i).year = 2025 /\ StartOf(i).month = 10)
          => /\ me(i).st.due = 0
             /\ admin_dashboard.rows[i].due = 0
             /\ \A t \in FarDates : me_at(i, t).st.due = 0

\* C24 witness: stopped on 2025-10-20, today 2025-12-31; an active member
\* enrolled 2025-10-15 is shown 0 due, where 150000 would be due at today's date
C24_Witness ==
    /\ StoppedOn(Date(2025, 10, 20)) /\ today = Date(2025, 12, 31)
    /\ \E i \in DOMAIN members :
          /\ members[i].is_active = 1 /\ StartOf(i) = Date(2025, 10, 15)
          /\ me(i).st.due = 0
          /\ due_total_as_of(today, StartOf(i)) = 150000

-----------------------------------------------------------------------------
(* Properties of the configuration, checked under SpecConfig *)

\* C25 as the specification states it: after any sequence of configuration
\* saves the daily amount, the monthly cap and the October 2025 fee are each a
\* positive integer, and a save with an invalid date or an invalid amount
\* changes no setting.
C25_ConfigPositive ==
    /\ [](daily_amount > 0 /\ monthly_cap > 0 /\ oct_2025_fixed > 0)
    /\ [][settings' # settings
          => \/ \A k \in SettingKeys \ {"project_end_date"} : settings'[k] = settings[k]
             \/ /\ IsIsoDate(settings'["project_start_date"])
                /\ StrToInt(settings'["daily_amount"]) > 0
                /\ StrToInt(settings'["monthly_cap"]) > 0
                /\ StrToInt(settings'["oct_2025_fixed"]) > 0]_vars

-----------------------------------------------------------------------------
(* Properties of deactivation and reactivation, checked under Spec *)

\* the status of member i as of a, from the enrolment date and the payments
\* alone: what a member never deactivated is shown
StatusFromLedger(i, a) ==
    LET due  == due_total_as_of(a, StartOf(i))
        paid == PaidById(seq["payments"], i, a)
    IN  [due |-> due, paid |-> paid,
         rest |-> IF due > paid THEN due - paid ELSE 0,
         avance |-> IF paid > due THEN paid - due ELSE 0,
         balance |-> paid - due,
         status |-> IF due > paid THEN "En retard" ELSE "A jour"]

FlagChanged(i) ==
    /\ i \in DOMAIN members /\ i \in DOMAIN members'
    /\ members'[i].is_active # members[i].is_active

\* C26: a step that deactivates or reactivates a member changes that member's
\* flag and nothing else: no payment, no deposit, no setting, no enrolment
\* date, hence not the collected total; and whatever deactivations went before,
\* an active member is shown, for every as-of date, the status that follows
\* from the enrolment date and the payments alone, which is the status of a
\* member never deactivated.
C26_DeactivationKeepsHistory ==
    /\ [][\A i \in MemberIds :
             FlagChanged(i)
             => /\ payments' = payments /\ bank_deposits' = bank_deposits
                /\ settings' = settings
                /\ DOMAIN members' = DOMAIN members
                /\ \A j \in DOMAIN members :
                      /\ members'[j].start_date = members[j].start_date
                      /\ members'[j].phone = members[j].phone
                      /\ j # i => members'[j] = members[j]]_vars
    /\ [](\A i \in DOMAIN members, a \in StatusDates :
             members[i].is_active = 1 => shown_status(i, a) = StatusFromLedger(i, a))

\* C26 witness: a member with a recorded payment is deactivated, the payment
\* still recorded and counted in the collected total
C26_Witness ==
    \E i \in DOMAIN members :
        /\ members[i].is_active = 0
        /\ \E p \in payments : p.member_id = i /\ p.pay_date = IsoFormat(Date(2025, 11, 10))
        /\ StatusFromLedger(i, Date(2025, 11, 10)).paid = 40000
        /\ total_collected_as_of(Date(2025, 11, 10)) >= 40000
        /\ shown_status(i, Date(2025, 11, 10)).paid = 0

\* C27: a recorded payment is never changed: from one state to the next it is
\* either still recorded with the same member, date, amount and mode, or gone,
\* and when it goes it alone goes, and every other payment, every deposit,
\* every member and every setting stays; deleting an id that is not recorded
\* changes nothing; no two recorded payments bear the same id.
C27_PaymentsImmutable ==
    /\ [](\A p, q \in payments : p.id = q.id => p = q)
    /\ [][\A p \in payments :
             \/ p \in payments'
             \/ /\ \A q \in payments' : q.id # p.id
                /\ payments' = payments \ {p}
                /\ UNCHANGED <<bank_deposits, members, settings, seq>>]_vars
    /\ [][\A i \in PaymentIds :
             (admin_delete_payment(i) /\ \A p \in payments : p.id # i)
             => UNCHANGED <<payments, bank_deposits, members, settings, seq>>]_vars

\* C27 witness: two payments were recorded and the first deleted; the second,
\* of the same member, and a bank deposit are still recorded
C27_Witness ==
    /\ seq["payments"] = 2 /\ Cardinality(payments) = 1
    /\ \E p \in payments : p.id = 2 /\ p.member_id = 1
    /\ bank_deposits # {} /\ members # <<>>

\* max(0, collected - deposited) as of asof over the given rows, on day numbers
AvailableOver(pays, deps, asof) ==
    LET c == SumById(MaxPayments,
                     {p \in pays : ToOrdinal(FromIsoFormat(p.pay_date)) <= ToOrdinal(asof)})
        b == SumById(MaxDeposits,
                     {d \in deps : ToOrdinal(FromIsoFormat(d.dep_date)) <= ToOrdinal(asof)})
    IN  IF c > b THEN c - b ELSE 0

\* C28 as the specification states it: when a step records a bank deposit, the
\* available balance at the as-of date of the step is afterwards lower by
\* exactly the deposit's amount, whatever the deposit's date.
C28_DepositLowersAvailable ==
    [][(bank_deposits' \ bank_deposits # {})
       => \A asof \in {as_of_date}, pays \in {payments'}, deps \in {bank_deposits'} :
             \A b \in bank_deposits' \ bank_deposits :
                 AvailableOver(pays, deps, asof)
                 = AvailableOver(payments, bank_deposits, asof) - b.amount]_vars

\* the entries of the statistics as of asof add up channel by channel, and
\* their totals add up to the scheme-wide collected amount
BreakdownAddsUp(asof) ==
    LET stats == monthly_collection_stats(asof)
    IN  /\ \A i \in DOMAIN stats :
              stats[i].total = stats[i].wave + stats[i].om + stats[i].cash
        /\ SumTotals(stats, Len(stats)) = total_collected_as_of(asof)

\* C29: in every reachable state and for every as-of date, each entry of the
\* monthly statistics has total = wave + om + cash, and the totals of all the
\* entries add up to the scheme-wide collected amount as of that date; every
\* recorded payment has a channel among wave, om and cash.
C29_BreakdownAddsUp ==
    /\ \A p \in payments : p.mode \in MODES
    /\ \A a \in StatsDates : BreakdownAddsUp(a)
    /\ BreakdownAddsUp(as_of_date)

\* C29 witness: November 2025 holds 40000 by wave and 20000 by om, total 60000
C29_Witness ==
    LET stats == monthly_collection_stats(as_of_date)
    IN  /\ \E i \in DOMAIN stats :
              /\ stats[i].ym = YmKey(<<2025, 11>>)
              /\ stats[i].wave = 40000
              /\ stats[i].om = 20000
              /\ stats[i].cash = 0
              /\ stats[i].total = 60000
        /\ total_collected_as_of(as_of_date) = 60000

-----------------------------------------------------------------------------
(* Properties of a due computation overlapping a save, checked under SpecDue *)

\* what is due for one month under the amounts c = [daily, cap, fee], on day numbers
DueMonthWith(c, year, month, asof, member_start) ==
    IF year = 2025 /\ month = 10
    THEN IF member_start.year = 2025 /\ member_start.month = 10
            /\ ToOrdinal(asof) >= ToOrdinal(Date(2025, 10, 31))
         THEN c.fee ELSE 0
    ELSE LET lo == Max(ToOrdinal(Date(year, month, 1)), ToOrdinal(member_start))
             hi == Min(ToOrdinal(Date(year, month, DaysInMonth(year, month))), ToOrdinal(asof))
         IN  IF hi < lo THEN 0 ELSE Min(c.cap, c.daily * ((hi - lo) + 1))

RECURSIVE DueLoopWith(_, _, _, _)
DueLoopWith(c, ms, asof, member_start) ==
    IF ms = <<>> THEN 0
    ELSE DueMonthWith(c, Head(ms)[1], Head(ms)[2], asof, member_start)
         + DueLoopWith(c, Tail(ms), asof, member_start)

\* the total due under the amounts c alone
DueWith(c, asof, member_start) ==
    IF ToOrdinal(asof) < ToOrdinal(member_start) THEN 0
    ELSE DueLoopWith(c, months_between(member_start, asof), asof, member_start)

\* the amounts before the save: the configuration the database is created with
OldAmounts ==
    [daily |-> StrToInt(DEFAULT_DAILY_AMOUNT), cap |-> StrToInt(DEFAULT_MONTHLY_CAP),
     fee |-> StrToInt(DEFAULT_OCT_2025_FIXED)]

\* the amounts after the save: those of the form being saved, or the stored
\* ones when no save is in progress
NewAmounts ==
    IF \E t \in Threads : req[t].pc = "set_setting"
    THEN LET f == req[CHOOSE t \in Threads : req[t].pc = "set_setting"].form
         IN  [daily |-> StrToInt(f[2]), cap |-> StrToInt(f[3]), fee |-> StrToInt(f[4])]
    ELSE [daily |-> daily_amount, cap |-> monthly_cap, fee |-> oct_2025_fixed]

\* C30 as the specification states it: the value a due_total_as_of computation
\* returns, also when it overlaps a configuration save, is its value under the
\* wholly old or the wholly new daily amount, monthly cap and fixed fee.
C30_OneConsistentConfiguration ==
    ret.fn = "due_total_as_of"
    => ret.val \in {DueWith(OldAmounts, q_asof, q_start), DueWith(NewAmounts, q_asof, q_start)}

====
